---- MODULE Spec2Model ----
(***************************************************************************)
(* Model of the enhanced_containers allocators: the page lock tracker      *)
(* (no_swap_allocator_state), the unserialized and serialized no-swap      *)
(* allocators, the zero-on-release allocator and their composition, the    *)
(* secure allocators.  The OS (mlock/munlock), the upstream allocator and  *)
(* the calling container are the environment.                              *)
(***************************************************************************)
EXTENDS Integers, Sequences, FiniteSets, TLC

(***************************************************************************)
(* Sizes.  The page size is what get_page_size() returns (4096 on the      *)
(* usual target); it is scaled down here and stays a power of two, as      *)
(* std::align requires.                                                    *)
(***************************************************************************)
PageSize == 2
NumPages == 2
MaxCount == 2
MaxOps == 4
MaxFaults == 1
MaxMisuse == 1
NumThreads == 2
MaxThreadOps == 2
MaxInsts == 3
MaxInstOps == 2

NullPtr == 0
MemBase == PageSize
MemSize == NumPages * PageSize
MemEnd == MemBase + MemSize
Addrs == MemBase .. (MemEnd - 1)
PageBases == {MemBase + i * PageSize : i \in 0 .. (NumPages - 1)}
ElemSizes == {1, 2}
Junk == 90
EINVAL == 22
Errnos == {EINVAL}

(***************************************************************************)
(* What mlock/munlock answer: 0, or -1 with errno set.                     *)
(***************************************************************************)
Ok == [r |-> 0, errno |-> 0]
OSAnswers == {Ok} \cup {[r |-> -1, errno |-> e] : e \in Errnos}

(***************************************************************************)
(* std::uint32_t, kept at its width as two 16-bit halves (the model        *)
(* checker's integers are narrower than 2^32).                             *)
(***************************************************************************)
Half == 2 ^ 16
U32(n) == [hi |-> n \div Half, lo |-> n % Half]
Inc32(c) ==
    IF c.lo = Half - 1 THEN [hi |-> (c.hi + 1) % Half, lo |-> 0]
                       ELSE [c EXCEPT !.lo = @ + 1]
Dec32(c) ==
    IF c.lo = 0 THEN [hi |-> (c.hi - 1) % Half, lo |-> Half - 1]
                ELSE [c EXCEPT !.lo = @ - 1]

(***************************************************************************)
(* std::unordered_map<void*, std::uint32_t>: a function on the set of      *)
(* keys that have an entry.  emplace inserts nothing when the key already  *)
(* has an entry.                                                           *)
(***************************************************************************)
EmptyMap == [p \in {} |-> U32(0)]
emplace(f, k, v) ==
    IF k \in DOMAIN f THEN f
    ELSE [x \in (DOMAIN f) \cup {k} |-> IF x = k THEN v ELSE f[x]]
erase(f, k) == [x \in (DOMAIN f) \ {k} |-> f[x]]

(***************************************************************************)
(* Exceptions in flight: none, or the kind thrown and the error code it    *)
(* carries.                                                                *)
(***************************************************************************)
NoErr == [kind |-> "none", code |-> 0]
Failed(m) == m.err.kind # "none"
\* the standard exception classes: std::system_error derives from
\* std::runtime_error; std::logic_error and std::bad_alloc are classes apart
IsA(kind, class) == kind = class \/ (kind = "system_error" /\ class = "runtime_error")

(***************************************************************************)
(* The machine an operation runs on: the tracker's map and mutex, the      *)
(* pages the OS holds locked, the memory's bytes, the upstream allocator's *)
(* blocks, the calls made so far by the running operation (ev) and the     *)
(* range a probe inside the calls looks at (watch).                        *)
(***************************************************************************)
RangeIs(mem, ptr, len, v) == \A a \in ptr .. (ptr + len - 1) : mem[a] = v
Event(m, op, addr, len, o) ==
    [op |-> op, addr |-> addr, len |-> len, r |-> o.r, errno |-> o.errno,
     held |-> m.mutex, zero |-> RangeIs(m.mem, m.watch.ptr, m.watch.len, 0)]
Log(m, op, addr, len, o) == [m EXCEPT !.ev = Append(@, Event(m, op, addr, len, o))]

(***************************************************************************)
(* The pages the OS locks or unlocks for mlock/munlock(ptr, len): every    *)
(* page holding a byte of the range.                                       *)
(***************************************************************************)
OSPages(ptr, len) == {a - (a % PageSize) : a \in ptr .. (ptr + len - 1)}

mlock(m, ptr, len, o) ==
    LET c == Log(m, "mlock", ptr, len, o)
    IN  IF o.r = 0 THEN [c EXCEPT !.locked = @ \cup OSPages(ptr, len)] ELSE c

munlock(m, ptr, len, o) ==
    LET c == Log(m, "munlock", ptr, len, o)
    IN  IF o.r = 0 THEN [c EXCEPT !.locked = @ \ OSPages(ptr, len)] ELSE c

(***************************************************************************)
(* Faulty variants of pin_memory and unpin_memory: the OS's answer is not  *)
(* looked at.                                                              *)
(***************************************************************************)
pin_memory_unchecked(m, ptr, len, o) == mlock(m, ptr, len, o)
unpin_memory_unchecked(m, ptr, len, o) == munlock(m, ptr, len, o)

pin_memory(m, ptr, len, o) ==
    LET c == mlock(m, ptr, len, o)
    IN  IF o.r # 0 THEN [c EXCEPT !.err = [kind |-> "system_error", code |-> o.errno]]
                   ELSE c

unpin_memory(m, ptr, len, o) ==
    LET c == munlock(m, ptr, len, o)
    IN  IF o.r # 0 THEN [c EXCEPT !.err = [kind |-> "system_error", code |-> o.errno]]
                   ELSE c

(***************************************************************************)
(* std::align(alignment, size, ptr, space): the first address at or after  *)
(* ptr that is a multiple of alignment, or null when size bytes no longer  *)
(* fit in space after the padding.                                         *)
(***************************************************************************)
std_align(alignment, size, ptr, space) ==
    LET aligned == ((ptr + alignment - 1) \div alignment) * alignment
    IN  IF space < size \/ aligned - ptr > space - size THEN NullPtr ELSE aligned

\* Faulty variant of to_page_sized: the result of std::align is returned as it is.
to_page_aligning_up(page_size, ptr) ==
    std_align(page_size, 1, ptr, 2 * page_size)

\* to_page with _page_size as a parameter
to_page_sized(page_size, ptr) ==
    LET fake_buffer_size == 2 * page_size
        page == std_align(page_size, 1, ptr, fake_buffer_size)
    IN  IF page > ptr THEN page - page_size ELSE page

to_page(ptr) == to_page_sized(PageSize, ptr)

(***************************************************************************)
(* Faulty variants of the loop bodies below: the page is pinned on every   *)
(* registration; the page is unpinned on every release; the entry is       *)
(* erased before the page is unpinned; a page without an entry is passed   *)
(* over.                                                                   *)
(***************************************************************************)
add_page_always_pin(m, page, os) ==
    IF page \notin DOMAIN m.page_ref_count
    THEN pin_memory([m EXCEPT !.page_ref_count = emplace(@, page, U32(1))],
                    page, PageSize, os[page])
    ELSE pin_memory([m EXCEPT !.page_ref_count[page] = Inc32(@)],
                    page, PageSize, os[page])

remove_page_always_unpin(m, page, os) ==
    IF page \notin DOMAIN m.page_ref_count
    THEN [m EXCEPT !.err = [kind |-> "runtime_error", code |-> 0]]
    ELSE LET d == [m EXCEPT !.page_ref_count[page] = Dec32(@)]
             u == unpin_memory(d, page, PageSize, os[page])
         IN  IF Failed(u) \/ d.page_ref_count[page] # U32(0) THEN u
             ELSE [u EXCEPT !.page_ref_count = erase(@, page)]

remove_page_erase_first(m, page, os) ==
    IF page \notin DOMAIN m.page_ref_count
    THEN [m EXCEPT !.err = [kind |-> "runtime_error", code |-> 0]]
    ELSE LET d == [m EXCEPT !.page_ref_count[page] = Dec32(@)]
         IN  IF d.page_ref_count[page] # U32(0) THEN d
             ELSE unpin_memory([d EXCEPT !.page_ref_count = erase(@, page)],
                               page, PageSize, os[page])

remove_page_skip_untracked(m, page, os) ==
    IF page \notin DOMAIN m.page_ref_count THEN m
    ELSE LET d == [m EXCEPT !.page_ref_count[page] = Dec32(@)]
             u == unpin_memory(d, page, PageSize, os[page])
         IN  IF d.page_ref_count[page] # U32(0) THEN d
             ELSE IF Failed(u) THEN u
             ELSE [u EXCEPT !.page_ref_count = erase(@, page)]

(***************************************************************************)
(* add_allocation / remove_allocation.  add_page and remove_page are the   *)
(* bodies of their while loops: find looks the page up, add_act and        *)
(* remove_act act on what was found (it: an entry was found).  add_walk    *)
(* and remove_walk are the loops, one iteration per unfolding; os[page] is *)
(* what the OS answers to the call made for that page.  An exception       *)
(* leaves the loop with the state reached so far.                          *)
(***************************************************************************)
find(m, page) == page \in DOMAIN m.page_ref_count

\* Faulty variant of add_act: the pin call asks for two pages.
add_act_pin_two_pages(m, page, it, os) ==
    IF ~it
    THEN pin_memory([m EXCEPT !.page_ref_count = emplace(@, page, U32(1))],
                    page, 2 * PageSize, os[page])
    ELSE [m EXCEPT !.page_ref_count[page] = Inc32(@)]

add_act(m, page, it, os) ==
    IF ~it
    THEN pin_memory([m EXCEPT !.page_ref_count = emplace(@, page, U32(1))],
                    page, PageSize, os[page])
    ELSE [m EXCEPT !.page_ref_count[page] = Inc32(@)]

add_page(m, page, os) == add_act(m, page, find(m, page), os)

RECURSIVE add_walk(_, _, _, _)
add_walk(m, page, end, os) ==
    IF Failed(m) \/ ~(page < end) THEN m
    ELSE add_walk(add_page(m, page, os), page + PageSize, end, os)

(***************************************************************************)
(* Faulty variant of add_allocation: a failed registration puts the map    *)
(* back as it was.                                                         *)
(***************************************************************************)
add_allocation_rollback(m, ptr, len, os) ==
    LET r == add_walk(m, to_page(ptr), ptr + len, os)
    IN  IF Failed(r) THEN [r EXCEPT !.page_ref_count = m.page_ref_count] ELSE r

add_allocation(m, ptr, len, os) == add_walk(m, to_page(ptr), ptr + len, os)

remove_act(m, page, it, os) ==
    LET d == [m EXCEPT !.page_ref_count[page] = Dec32(@)]
        u == unpin_memory(d, page, PageSize, os[page])
    IN  IF ~it
        THEN [m EXCEPT !.err = [kind |-> "runtime_error", code |-> 0]]
        ELSE IF d.page_ref_count[page] = U32(0)
             THEN IF Failed(u) THEN u
                  ELSE [u EXCEPT !.page_ref_count = erase(@, page)]
             ELSE d

remove_page(m, page, os) == remove_act(m, page, find(m, page), os)

RECURSIVE remove_walk(_, _, _, _)
remove_walk(m, page, end, os) ==
    IF Failed(m) \/ ~(page < end) THEN m
    ELSE remove_walk(remove_page(m, page, os), page + PageSize, end, os)

\* Faulty variant of remove_allocation: a failing release puts the map back as it was.
remove_allocation_rollback(m, ptr, len, os) ==
    LET r == remove_walk(m, to_page(ptr), ptr + len, os)
    IN  IF Failed(r) THEN [r EXCEPT !.page_ref_count = m.page_ref_count] ELSE r

remove_allocation(m, ptr, len, os) == remove_walk(m, to_page(ptr), ptr + len, os)

(***************************************************************************)
(* The serialized entry points: std::lock_guard holds the mutex for the    *)
(* whole call and releases it on return and on an exception alike.         *)
(***************************************************************************)
\* Faulty variant of serialized_add_allocation: the lock is not taken.
add_allocation_unlocked(m, ptr, len, os) == add_allocation(m, ptr, len, os)

serialized_add_allocation(m, ptr, len, os) ==
    LET lk == [m EXCEPT !.mutex = TRUE]
    IN  [add_allocation(lk, ptr, len, os) EXCEPT !.mutex = FALSE]

\* Faulty variant of serialized_remove_allocation: the mutex is locked and
\* unlocked by hand, so an exception leaves it locked.
remove_allocation_manual_unlock(m, ptr, len, os) ==
    LET r == remove_allocation([m EXCEPT !.mutex = TRUE], ptr, len, os)
    IN  IF Failed(r) THEN r ELSE [r EXCEPT !.mutex = FALSE]

serialized_remove_allocation(m, ptr, len, os) ==
    LET lk == [m EXCEPT !.mutex = TRUE]
    IN  [remove_allocation(lk, ptr, len, os) EXCEPT !.mutex = FALSE]

(***************************************************************************)
(* The upstream allocator A, any conforming allocator.  allocate(n)        *)
(* returns the pointer up the allocator chose, or throws std::bad_alloc    *)
(* (up = NullPtr); deallocate(ptr, n) gives the block back.                *)
(***************************************************************************)
upstream_allocate(m, up, n, sz) ==
    LET c == Log(m, "allocate", up, n, Ok)
    IN  IF up = NullPtr THEN [c EXCEPT !.err = [kind |-> "bad_alloc", code |-> 0]]
                        ELSE [c EXCEPT !.heap = @ \cup {[ptr |-> up, len |-> n * sz]}]

upstream_deallocate(m, ptr, n, sz) ==
    LET c == Log(m, "deallocate", ptr, n, Ok)
    IN  [c EXCEPT !.heap = @ \ {[ptr |-> ptr, len |-> n * sz]}]

(***************************************************************************)
(* unserialized_no_swap_allocator<T, A> and serialized_no_swap_allocator   *)
(* <T, A>; sz is sizeof(T).                                                *)
(***************************************************************************)
(***************************************************************************)
(* Faulty variant of unserialized_allocate: the upstream allocator's       *)
(* exception is caught and a null pointer returned.                        *)
(***************************************************************************)
allocate_swallowing(m, up, n, sz, os) ==
    LET a == upstream_allocate(m, up, n, sz)
    IN  IF Failed(a) THEN [a EXCEPT !.err = NoErr] ELSE add_allocation(a, up, n * sz, os)

unserialized_allocate(m, up, n, sz, os) ==
    LET a == upstream_allocate(m, up, n, sz)
    IN  IF Failed(a) THEN a ELSE add_allocation(a, up, n * sz, os)

(***************************************************************************)
(* Faulty variant of unserialized_deallocate: the block goes back to the   *)
(* upstream allocator before its pages are unregistered.                   *)
(***************************************************************************)
deallocate_before_remove(m, ptr, n, sz, os) ==
    remove_allocation(upstream_deallocate(m, ptr, n, sz), ptr, n * sz, os)

unserialized_deallocate(m, ptr, n, sz, os) ==
    LET r == remove_allocation(m, ptr, n * sz, os)
    IN  IF Failed(r) THEN r ELSE upstream_deallocate(r, ptr, n, sz)

\* Faulty variant of serialized_deallocate: the upstream deallocate is left out.
serialized_deallocate_leaking(m, ptr, n, sz, os) ==
    serialized_remove_allocation(m, ptr, n * sz, os)

serialized_allocate(m, up, n, sz, os) ==
    LET a == upstream_allocate(m, up, n, sz)
    IN  IF Failed(a) THEN a ELSE serialized_add_allocation(a, up, n * sz, os)

serialized_deallocate(m, ptr, n, sz, os) ==
    LET r == serialized_remove_allocation(m, ptr, n * sz, os)
    IN  IF Failed(r) THEN r ELSE upstream_deallocate(r, ptr, n, sz)

(***************************************************************************)
(* zero_on_release_allocator<T, A>, A being the upstream allocator itself  *)
(* (ns = "none") or one of the no-swap allocators wrapping it; the latter  *)
(* two are serialized_secure_allocator and unserialized_secure_allocator.  *)
(***************************************************************************)
wrapped_allocate(ns, m, up, n, sz, os) ==
    CASE ns = "none"         -> upstream_allocate(m, up, n, sz)
      [] ns = "unserialized" -> unserialized_allocate(m, up, n, sz, os)
      [] ns = "serialized"   -> serialized_allocate(m, up, n, sz, os)

wrapped_deallocate(ns, m, ptr, n, sz, os) ==
    CASE ns = "none"         -> upstream_deallocate(m, ptr, n, sz)
      [] ns = "unserialized" -> unserialized_deallocate(m, ptr, n, sz, os)
      [] ns = "serialized"   -> serialized_deallocate(m, ptr, n, sz, os)

(***************************************************************************)
(* Faulty variant of std_fill: the last byte of the range is left out.     *)
(***************************************************************************)
std_fill_short(m, first, last, v) ==
    LET c == Log(m, "fill", first, last - first, Ok)
    IN  [c EXCEPT !.mem = [a \in DOMAIN @ |-> IF first <= a /\ a < last - 1 THEN v ELSE @[a]]]

\* Faulty variant of std_fill: the byte at last is overwritten too.
std_fill_past_end(m, first, last, v) ==
    LET c == Log(m, "fill", first, last - first, Ok)
    IN  [c EXCEPT !.mem = [a \in DOMAIN @ |-> IF first <= a /\ a <= last THEN v ELSE @[a]]]

std_fill(m, first, last, v) ==
    LET c == Log(m, "fill", first, last - first, Ok)
    IN  [c EXCEPT !.mem = [a \in DOMAIN @ |-> IF first <= a /\ a < last THEN v ELSE @[a]]]

zero_on_release_allocate(ns, m, up, n, sz, os) == wrapped_allocate(ns, m, up, n, sz, os)

(***************************************************************************)
(* Faulty variant of zero_on_release_deallocate: the range is zeroed after *)
(* the wrapped allocator has released it.                                  *)
(***************************************************************************)
deallocate_then_fill(ns, m, ptr, n, sz, os) ==
    LET d == wrapped_deallocate(ns, m, ptr, n, sz, os)
    IN  IF Failed(d) THEN d ELSE std_fill(d, ptr, ptr + n * sz, 0)

zero_on_release_deallocate(ns, m, ptr, n, sz, os) ==
    LET f == std_fill(m, ptr, ptr + n * sz, 0)
    IN  wrapped_deallocate(ns, f, ptr, n, sz, os)

(***************************************************************************)
(* The allocator types a program instantiates: zero tells whether the      *)
(* outer layer is zero_on_release_allocator, ns which no-swap allocator    *)
(* (if any) sits between it and the upstream allocator.                    *)
(***************************************************************************)
Kinds ==
    {k \in [zero : BOOLEAN, ns : {"none", "unserialized", "serialized"}] :
        k.zero \/ k.ns # "none"}
NoSwap(k) == k.ns # "none"
Secure(k) == k.zero /\ k.ns # "none"

allocate(k, m, up, n, sz, os) ==
    IF k.zero THEN zero_on_release_allocate(k.ns, m, up, n, sz, os)
              ELSE wrapped_allocate(k.ns, m, up, n, sz, os)

deallocate(k, m, ptr, n, sz, os) ==
    IF k.zero THEN zero_on_release_deallocate(k.ns, m, ptr, n, sz, os)
              ELSE wrapped_deallocate(k.ns, m, ptr, n, sz, os)

(***************************************************************************)
(* allocate_at_least(len): the upstream allocator returns a block of count *)
(* >= len elements; the no-swap allocators pass r.count, a number of       *)
(* elements, to the tracker as the length in bytes.                        *)
(***************************************************************************)
unserialized_allocate_at_least(m, up, count, sz, os) ==
    LET r == upstream_allocate(m, up, count, sz)
    IN  IF Failed(r) THEN r ELSE add_allocation(r, up, count, os)

serialized_allocate_at_least(m, up, count, sz, os) ==
    LET r == upstream_allocate(m, up, count, sz)
    IN  IF Failed(r) THEN r ELSE serialized_add_allocation(r, up, count, os)

allocate_at_least(k, m, up, count, sz, os) ==
    CASE k.ns = "none"         -> upstream_allocate(m, up, count, sz)
      [] k.ns = "unserialized" -> unserialized_allocate_at_least(m, up, count, sz, os)
      [] k.ns = "serialized"   -> serialized_allocate_at_least(m, up, count, sz, os)

(***************************************************************************)
(* State.  page_ref_count, mutex: the tracker singleton's members.         *)
(* locked: the pages the OS holds locked.  mem: the memory's bytes.        *)
(* heap: the blocks the upstream allocator has given out and not got back. *)
(* alloc, sizeof_T: the allocator type the program's containers are        *)
(* instantiated with and the size of its element type.  handed: the        *)
(* allocations returned to the caller and not yet passed to deallocate.    *)
(* released: the bytes zeroed by a release and neither handed out nor      *)
(* written since.  events: the calls made by the latest operation.  last:  *)
(* the latest operation, its outcome and the tracker's map when it began.  *)
(* faults: the number of operations that the OS or the upstream allocator  *)
(* made fail.  misuse: the number of deallocate calls the caller made for  *)
(* a range it does not hold.  nops: the number of operations so far.       *)
(* thr: where each thread of a multi-threaded program stands in its call.  *)
(* order: the tracker operations of the threads, in the order they began   *)
(* their page walk.                                                        *)
(***************************************************************************)
VARIABLES page_ref_count, mutex, locked, mem, heap, alloc, sizeof_T, handed,
          released, events, last, faults, misuse, nops, thr, order, self, objects,
          insts, fcall

vars == <<page_ref_count, mutex, locked, mem, heap, alloc, sizeof_T, handed,
          released, events, last, faults, misuse, nops, thr, order, self, objects,
          insts, fcall>>

Range(ptr, len) == ptr .. (ptr + len - 1)

(***************************************************************************)
(* What the OS may answer to the calls of one operation on [ptr, ptr+len): *)
(* success throughout, or an error for the call made for page f.  (The     *)
(* operation ends at the first failing call, so one failing page covers    *)
(* every answer, and only a page at or around the range can be asked for.) *)
(***************************************************************************)
AllOk == [p \in PageBases |-> Ok]
OSOracles(ptr, len) ==
    {AllOk} \cup {[p \in PageBases |-> IF p = f THEN o ELSE Ok] :
                     f \in {q \in PageBases : q <= ptr + len /\ ptr < q + PageSize},
                     o \in OSAnswers \ {Ok}}

(***************************************************************************)
(* The operation failed because the OS or the upstream allocator refused.  *)
(***************************************************************************)
Injected(r) == r.err.kind \in {"system_error", "bad_alloc"}

Machine(ptr, len) ==
    [page_ref_count |-> page_ref_count, mutex |-> mutex, locked |-> locked,
     mem |-> mem, heap |-> heap, ev |-> <<>>, err |-> NoErr,
     watch |-> [ptr |-> ptr, len |-> len]]

\* objs[id] is the tracker object the call ran on
CommitTo(r, id, objs) ==
    /\ page_ref_count' = r.page_ref_count
    /\ objects' = [objs EXCEPT ![id] = r.page_ref_count]
    /\ mutex' = r.mutex
    /\ locked' = r.locked
    /\ mem' = r.mem
    /\ heap' = r.heap
    /\ events' = r.ev

Commit(r) == CommitTo(r, self, objects)

(***************************************************************************)
(* What a conforming upstream allocator may return for n elements of size  *)
(* sz: a suitably aligned block inside the memory that overlaps no block   *)
(* it has given out (an empty block still has an address of its own), or   *)
(* no block at all.                                                        *)
(***************************************************************************)
Extent(len) == IF len = 0 THEN 1 ELSE len
Free(up, len) ==
    /\ up + len <= MemEnd
    /\ \A b \in heap : up + Extent(len) <= b.ptr \/ b.ptr + Extent(b.len) <= up
UpstreamResults(n, sz) ==
    {NullPtr} \cup {up \in Addrs : up % sz = 0 /\ Free(up, n * sz)}

NoCall ==
    [op |-> "none", ptr |-> NullPtr, n |-> 0, sz |-> 1, err |-> NoErr, ret |-> NullPtr,
     before |-> EmptyMap]
Call(op, ptr, n, sz, err, ret) ==
    [op |-> op, ptr |-> ptr, n |-> n, sz |-> sz, err |-> err, ret |-> ret,
     before |-> page_ref_count]

\* fcall: the function call a specification of a single function is about
NoFCall == [f |-> "none"]

Threads == 1 .. NumThreads
Idle(kind) ==
    [kind |-> kind, pc |-> "idle", op |-> "none", ptr |-> NullPtr, len |-> 0,
     page |-> NullPtr, it |-> FALSE, err |-> NoErr, done |-> 0]

Init ==
    /\ thr = [t \in Threads |-> Idle("unserialized")]
    /\ order = <<>>
    /\ insts = <<>>
    /\ fcall = NoFCall
    /\ self = 1
    /\ objects = <<EmptyMap>>
    /\ page_ref_count = EmptyMap
    /\ mutex = FALSE
    /\ locked = {}
    /\ mem = [a \in Addrs |-> Junk]
    /\ heap = {}
    /\ alloc \in Kinds
    /\ sizeof_T \in ElemSizes
    /\ handed = {}
    /\ released = {}
    /\ events = <<>>
    /\ last = NoCall
    /\ misuse = 0
    /\ faults = 0
    /\ nops = 0

(***************************************************************************)
(* A container calls allocate(n) for elements of size sz.                  *)
(***************************************************************************)
Allocate ==
    \E sz \in {sizeof_T}, n \in 0 .. MaxCount :
      \E up \in UpstreamResults(n, sz) :
       \E os \in OSOracles(up, n * sz) :
        LET r == allocate(alloc, Machine(up, IF up = NullPtr THEN 0 ELSE n * sz),
                          up, n, sz, os)
        IN  /\ nops < MaxOps
            /\ Commit(r)
            /\ handed' = IF Failed(r) THEN handed
                         ELSE handed \cup {[ptr |-> up, n |-> n, sz |-> sz]}
            /\ released' = IF Failed(r) THEN released ELSE released \ Range(up, n * sz)
            /\ last' = Call("allocate", up, n, sz, r.err,
                             IF Failed(r) THEN NullPtr ELSE up)
            /\ Injected(r) => faults < MaxFaults
            /\ faults' = IF Injected(r) THEN faults + 1 ELSE faults
            /\ nops' = nops + 1
            /\ UNCHANGED <<fcall, insts, alloc, sizeof_T, misuse, thr, order, self>>

(***************************************************************************)
(* The container gives an allocation back, with the pointer and count it   *)
(* asked for.                                                              *)
(***************************************************************************)
Deallocate ==
    \E h \in handed :
      \E os \in OSOracles(h.ptr, h.n * h.sz) :
        LET r == deallocate(alloc, Machine(h.ptr, h.n * h.sz), h.ptr, h.n, h.sz, os)
        IN  /\ nops < MaxOps
            /\ Commit(r)
            /\ handed' = handed \ {h}
            /\ released' = IF alloc.zero THEN released \cup Range(h.ptr, h.n * h.sz)
                                         ELSE released
            /\ last' = Call("deallocate", h.ptr, h.n, h.sz, r.err, NullPtr)
            /\ Injected(r) => faults < MaxFaults
            /\ faults' = IF Injected(r) THEN faults + 1 ELSE faults
            /\ nops' = nops + 1
            /\ UNCHANGED <<fcall, insts, alloc, sizeof_T, misuse, thr, order, self>>

(***************************************************************************)
(* The caller passes deallocate a range it does not hold: a second release *)
(* of the same range, or a foreign pointer or count.                       *)
(***************************************************************************)
DeallocateUntracked ==
    \E sz \in {sizeof_T}, n \in 0 .. MaxCount :
      \E ptr \in {a \in Addrs : a % sz = 0 /\ a + n * sz <= MemEnd} :
       \E os \in OSOracles(ptr, n * sz) :
        LET r == deallocate(alloc, Machine(ptr, n * sz), ptr, n, sz, os)
        IN  /\ [ptr |-> ptr, n |-> n, sz |-> sz] \notin handed
            /\ nops < MaxOps
            /\ misuse < MaxMisuse
            /\ Commit(r)
            /\ released' = IF alloc.zero THEN released \cup Range(ptr, n * sz)
                                         ELSE released
            /\ last' = Call("deallocate", ptr, n, sz, r.err, NullPtr)
            /\ misuse' = misuse + 1
            /\ Injected(r) => faults < MaxFaults
            /\ faults' = IF Injected(r) THEN faults + 1 ELSE faults
            /\ nops' = nops + 1
            /\ UNCHANGED <<fcall, insts, alloc, sizeof_T, handed, thr, order, self>>

(***************************************************************************)
(* The container stores its elements in an allocation it holds.            *)
(***************************************************************************)
Write ==
    \E h \in handed :
        /\ nops < MaxOps
        /\ ~RangeIs(mem, h.ptr, h.n * h.sz, Junk)
        /\ mem' = [a \in Addrs |-> IF a \in Range(h.ptr, h.n * h.sz) THEN Junk ELSE mem[a]]
        /\ nops' = nops + 1
        /\ released' = released \ Range(h.ptr, h.n * h.sz)
        /\ events' = <<>>
        /\ last' = Call("write", h.ptr, h.n, h.sz, NoErr, NullPtr)
        /\ UNCHANGED <<fcall, insts, page_ref_count, mutex, locked, heap, alloc, sizeof_T, handed,
                       faults, misuse, thr, order, self, objects>>

Next == Allocate \/ Deallocate \/ DeallocateUntracked \/ Write

Spec == Init /\ [][Next]_vars

(***************************************************************************)
(* A multi-threaded program.  Each thread owns an allocator (serialized or *)
(* unserialized, element size 1) on the shared tracker and calls allocate  *)
(* and deallocate; the steps of its call interleave with the other         *)
(* threads' steps.  pc: idle (between calls), lock (waiting for the        *)
(* mutex in std::lock_guard's constructor), find and act (the two halves   *)
(* of a loop iteration of the page walk), unlock (std::lock_guard's        *)
(* destructor), return (back in allocate / deallocate), crashed.  All OS   *)
(* calls succeed and the upstream allocator is thread safe.                *)
(***************************************************************************)
\* Faulty variants: a lock that never blocks; an entry point that always locks.
lock_never_blocks(held) == TRUE
entry_pc_locking(kind) == "lock"

\* std::mutex::lock returns only when the mutex is not held
lock_available(held) == ~held
\* allocate / deallocate call the serialized or the plain tracker operation
entry_pc(kind) == IF kind = "serialized" THEN "lock" ELSE "find"
\* Faulty variant: the serialized operation returns without unlocking.
exit_pc_keeping_lock(kind) == "return"
exit_pc(kind) == IF kind = "serialized" THEN "unlock" ELSE "return"

InitThreads ==
    /\ thr \in [Threads -> {Idle(k) : k \in {"serialized", "unserialized"}}]
    /\ order = <<>>
    /\ insts = <<>>
    /\ fcall = NoFCall
    /\ self = 1
    /\ objects = <<EmptyMap>>
    /\ page_ref_count = EmptyMap
    /\ mutex = FALSE
    /\ locked = {}
    /\ mem = [a \in Addrs |-> Junk]
    /\ heap = {}
    /\ alloc = [zero |-> FALSE, ns |-> "serialized"]
    /\ sizeof_T = 1
    /\ handed = {}
    /\ released = {}
    /\ events = <<>>
    /\ last = NoCall
    /\ misuse = 0
    /\ faults = 0
    /\ nops = 0

Enter(t, op, ptr, len) ==
    LET pc == entry_pc(thr[t].kind)
    IN  /\ thr' = [thr EXCEPT ![t] = [@ EXCEPT !.pc = pc, !.op = op, !.ptr = ptr,
                                              !.len = len, !.page = to_page(ptr),
                                              !.it = FALSE, !.err = NoErr]]
        /\ order' = IF pc = "lock" THEN order
                    ELSE Append(order, [op |-> op, ptr |-> ptr, len |-> len])

\* allocate: the upstream allocate, then the call of the tracker operation
CallAllocate(t) ==
    /\ thr[t].pc = "idle"
    /\ thr[t].done < MaxThreadOps
    /\ \E n \in 1 .. MaxCount :
         \E up \in UpstreamResults(n, 1) \ {NullPtr} :
           /\ heap' = heap \cup {[ptr |-> up, len |-> n]}
           /\ Enter(t, "add", up, n)
    /\ UNCHANGED <<fcall, insts, self, objects, page_ref_count, mutex, locked, mem, alloc, sizeof_T, handed,
                   released, events, last, faults, misuse, nops>>

\* deallocate of a range the program holds: the call of the tracker operation
CallDeallocate(t) ==
    /\ thr[t].pc = "idle"
    /\ thr[t].done < MaxThreadOps
    /\ \E h \in handed :
         /\ handed' = handed \ {h}
         /\ Enter(t, "remove", h.ptr, h.n * h.sz)
    /\ UNCHANGED <<fcall, insts, self, objects, page_ref_count, mutex, locked, mem, heap, alloc, sizeof_T,
                   released, events, last, faults, misuse, nops>>

\* std::lock_guard lk{_mutex}
Acquire(t) ==
    /\ thr[t].pc = "lock"
    /\ lock_available(mutex)
    /\ mutex' = TRUE
    /\ thr' = [thr EXCEPT ![t].pc = "find"]
    /\ order' = Append(order, [op |-> thr[t].op, ptr |-> thr[t].ptr, len |-> thr[t].len])
    /\ UNCHANGED <<fcall, insts, self, objects, page_ref_count, locked, mem, heap, alloc, sizeof_T, handed,
                   released, events, last, faults, misuse, nops>>

\* while (page < bptr + len) { auto it = _page_ref_count.find(page);
Find(t) ==
    /\ thr[t].pc = "find"
    /\ LET me == thr[t]
       IN  thr' = [thr EXCEPT ![t] =
                     IF me.page < me.ptr + me.len
                     THEN [me EXCEPT !.it = find(Machine(NullPtr, 0), me.page), !.pc = "act"]
                     ELSE [me EXCEPT !.pc = exit_pc(me.kind)]]
    /\ UNCHANGED <<fcall, insts, self, objects, page_ref_count, mutex, locked, mem, heap, alloc, sizeof_T, handed,
                   released, events, last, faults, misuse, nops, order>>

\* the rest of the loop body.  Using an iterator whose entry another thread
\* has erased is undefined: the step may leave the map alone or crash.
Act(t) ==
    /\ thr[t].pc = "act"
    /\ LET me == thr[t]
           m == Machine(NullPtr, 0)
           r == IF me.op = "add" THEN add_act(m, me.page, me.it, AllOk)
                                 ELSE remove_act(m, me.page, me.it, AllOk)
       IN  IF me.it /\ ~find(m, me.page)
           THEN /\ \E out \in {"find", "crashed"} :
                     thr' = [thr EXCEPT ![t].pc = out, ![t].page = @ + PageSize]
                /\ UNCHANGED <<page_ref_count, objects, locked, events>>
           ELSE /\ page_ref_count' = r.page_ref_count
                /\ objects' = [objects EXCEPT ![self] = r.page_ref_count]
                /\ locked' = r.locked
                /\ events' = events \o r.ev
                /\ thr' = [thr EXCEPT ![t] =
                             IF Failed(r)
                             THEN [me EXCEPT !.pc = exit_pc(me.kind), !.err = r.err]
                             ELSE [me EXCEPT !.pc = "find", !.page = @ + PageSize]]
    /\ UNCHANGED <<fcall, insts, self, mutex, mem, heap, alloc, sizeof_T, handed, released, last,
                   faults, misuse, nops, order>>

\* the destructor of lk
Release(t) ==
    /\ thr[t].pc = "unlock"
    /\ mutex' = FALSE
    /\ thr' = [thr EXCEPT ![t].pc = "return"]
    /\ UNCHANGED <<fcall, insts, self, objects, page_ref_count, locked, mem, heap, alloc, sizeof_T, handed,
                   released, events, last, faults, misuse, nops, order>>

\* allocate returns the pointer; deallocate calls the upstream deallocate
Return(t) ==
    /\ thr[t].pc = "return"
    /\ LET me == thr[t]
           ok == me.err.kind = "none"
       IN  /\ handed' = IF ok /\ me.op = "add"
                        THEN handed \cup {[ptr |-> me.ptr, n |-> me.len, sz |-> 1]}
                        ELSE handed
           /\ heap' = IF ok /\ me.op = "remove"
                      THEN heap \ {[ptr |-> me.ptr, len |-> me.len]}
                      ELSE heap
    /\ thr' = [thr EXCEPT ![t] = [@ EXCEPT !.pc = "idle", !.done = @ + 1]]
    /\ nops' = nops + 1
    /\ UNCHANGED <<fcall, insts, self, objects, page_ref_count, mutex, locked, mem, alloc, sizeof_T, released,
                   events, last, faults, misuse, order>>

ThreadStep(t) ==
    \/ CallAllocate(t)
    \/ CallDeallocate(t)
    \/ Acquire(t)
    \/ Find(t)
    \/ Act(t)
    \/ Release(t)
    \/ Return(t)

NextThreads == \E t \in Threads : ThreadStep(t)

SpecThreads == InitThreads /\ [][NextThreads]_vars

(***************************************************************************)
(* The program of serialized allocators only, under a fair scheduler: a    *)
(* thread inside a call is not suspended forever (its find, act, unlock    *)
(* and return steps are taken), and std::mutex::lock returns when the      *)
(* mutex stays available.  Whether a thread makes another call is up to    *)
(* the program: CallAllocate and CallDeallocate carry no fairness.  The OS *)
(* calls return (Act takes their answer in the same step).                 *)
(***************************************************************************)
InitSerialized ==
    /\ InitThreads
    /\ \A t \in Threads : thr[t].kind = "serialized"

InCall(t) == Acquire(t) \/ Find(t) \/ Act(t) \/ Release(t) \/ Return(t)

Fairness ==
    \A t \in Threads :
        /\ WF_vars(Acquire(t))
        /\ WF_vars(Find(t))
        /\ WF_vars(Act(t))
        /\ WF_vars(Release(t))
        /\ WF_vars(Return(t))

SpecSerialized == InitSerialized /\ [][NextThreads]_vars /\ Fairness

(***************************************************************************)
(* The same tracker operations run one after another, each to its end.     *)
(***************************************************************************)
RECURSIVE SeqApply(_, _, _)
SeqApply(m, ops, i) ==
    IF i > Len(ops) THEN m
    ELSE LET r == IF ops[i].op = "add"
                  THEN serialized_add_allocation(m, ops[i].ptr, ops[i].len, AllOk)
                  ELSE serialized_remove_allocation(m, ops[i].ptr, ops[i].len, AllOk)
         IN  SeqApply([r EXCEPT !.err = NoErr], ops, i + 1)

EmptyMachine ==
    [page_ref_count |-> EmptyMap, mutex |-> FALSE, locked |-> {}, mem |-> mem,
     heap |-> {}, ev |-> <<>>, err |-> NoErr, watch |-> [ptr |-> NullPtr, len |-> 0]]

(***************************************************************************)
(* Single-threaded code with many allocator instances: every call goes     *)
(* through an instance of some no-swap or secure allocator type and some   *)
(* element size.  An instance takes its _state from get_state_object()     *)
(* when it is constructed (copies share it); self is the static _self      *)
(* pointer and objects the tracker objects created so far.  A range is     *)
(* given back through the instance that allocated it, or a copy.  Nothing  *)
(* fails and only held ranges are released.                                *)
(***************************************************************************)
\* Faulty variant: a new tracker object at every call.
get_state_object_fresh(me, objs) ==
    [self |-> Len(objs) + 1, objects |-> Append(objs, EmptyMap)]

\* if (!_self) _self.reset(new no_swap_allocator_state{}); return _self;
get_state_object(me, objs) ==
    IF me = NullPtr
    THEN [self |-> Len(objs) + 1, objects |-> Append(objs, EmptyMap)]
    ELSE [self |-> me, objects |-> objs]

Instances == {k \in Kinds : NoSwap(k)} \X ElemSizes

InitShared ==
    /\ self = NullPtr
    /\ objects = <<>>
    /\ thr = [t \in Threads |-> Idle("unserialized")]
    /\ order = <<>>
    /\ insts = <<>>
    /\ fcall = NoFCall
    /\ page_ref_count = EmptyMap
    /\ mutex = FALSE
    /\ locked = {}
    /\ mem = [a \in Addrs |-> Junk]
    /\ heap = {}
    /\ alloc = [zero |-> FALSE, ns |-> "serialized"]
    /\ sizeof_T = 1
    /\ handed = {}
    /\ released = {}
    /\ events = <<>>
    /\ last = NoCall
    /\ misuse = 0
    /\ faults = 0
    /\ nops = 0

\* an instance is constructed and allocate(n) is called through it
SharedAllocate ==
    \E inst \in Instances, n \in 1 .. MaxCount :
      \E up \in UpstreamResults(n, inst[2]) \ {NullPtr} :
        LET k == inst[1]
            sz == inst[2]
            g == get_state_object(self, objects)
            m == [Machine(up, n * sz) EXCEPT !.page_ref_count = g.objects[g.self]]
            r == allocate(k, m, up, n, sz, AllOk)
        IN  /\ nops < MaxOps
            /\ self' = g.self
            /\ CommitTo(r, g.self, g.objects)
            /\ handed' = IF Failed(r) THEN handed
                         ELSE handed \cup {[ptr |-> up, n |-> n, sz |-> sz, by |-> k,
                                            state |-> g.self]}
            /\ released' = IF Failed(r) THEN released ELSE released \ Range(up, n * sz)
            /\ last' = Call("allocate", up, n, sz, r.err, IF Failed(r) THEN NullPtr ELSE up)
            /\ alloc' = k
            /\ sizeof_T' = sz
            /\ nops' = nops + 1
            /\ UNCHANGED <<fcall, insts, faults, misuse, thr, order>>

\* deallocate through the instance that made the allocation
SharedDeallocate ==
    \E h \in handed :
        LET m == [Machine(h.ptr, h.n * h.sz) EXCEPT !.page_ref_count = objects[h.state]]
            r == deallocate(h.by, m, h.ptr, h.n, h.sz, AllOk)
        IN  /\ nops < MaxOps
            /\ CommitTo(r, h.state, objects)
            /\ handed' = handed \ {h}
            /\ released' = IF h.by.zero THEN released \cup Range(h.ptr, h.n * h.sz)
                                        ELSE released
            /\ last' = Call("deallocate", h.ptr, h.n, h.sz, r.err, NullPtr)
            /\ alloc' = h.by
            /\ sizeof_T' = h.sz
            /\ nops' = nops + 1
            /\ UNCHANGED <<fcall, insts, self, faults, misuse, thr, order>>

NextShared == SharedAllocate \/ SharedDeallocate

SpecShared == InitShared /\ [][NextShared]_vars

(***************************************************************************)
(* to_page alone: a page size the OS may report (a power of two) and a     *)
(* pointer are chosen, then to_page is called.  Pointers stay below the    *)
(* last page of the address space, where no allocation can lie.            *)
(***************************************************************************)
PageSizes == {1, 2, 4, 8}
MaxPtr == 40

InitToPage ==
    /\ fcall \in [f : {"to_page"}, page_size : PageSizes, ptr : 0 .. MaxPtr,
                  returned : {FALSE}, ret : {NullPtr}]
    /\ insts = <<>>
    /\ self = NullPtr
    /\ objects = <<>>
    /\ thr = [t \in Threads |-> Idle("unserialized")]
    /\ order = <<>>
    /\ page_ref_count = EmptyMap
    /\ mutex = FALSE
    /\ locked = {}
    /\ mem = [a \in Addrs |-> Junk]
    /\ heap = {}
    /\ alloc = [zero |-> FALSE, ns |-> "serialized"]
    /\ sizeof_T = 1
    /\ handed = {}
    /\ released = {}
    /\ events = <<>>
    /\ last = NoCall
    /\ misuse = 0
    /\ faults = 0
    /\ nops = 0

CallToPage ==
    /\ ~fcall.returned
    /\ fcall' = [fcall EXCEPT !.returned = TRUE,
                              !.ret = to_page_sized(fcall.page_size, fcall.ptr)]
    /\ UNCHANGED <<page_ref_count, mutex, locked, mem, heap, alloc, sizeof_T, handed,
                   released, events, last, faults, misuse, nops, thr, order, self,
                   objects, insts>>

NextToPage == CallToPage

SpecToPage == InitToPage /\ [][NextToPage]_vars

(***************************************************************************)
(* A container that gets its storage with allocate_at_least(n) and gives   *)
(* it back with deallocate(r.ptr, r.count).  No OS or upstream call fails  *)
(* on the way in; the release is the Deallocate of the base specification. *)
(***************************************************************************)
InitAtLeast ==
    /\ alloc \in {k \in Kinds : NoSwap(k)}
    /\ sizeof_T \in ElemSizes
    /\ thr = [t \in Threads |-> Idle("unserialized")]
    /\ order = <<>>
    /\ insts = <<>>
    /\ fcall = NoFCall
    /\ self = 1
    /\ objects = <<EmptyMap>>
    /\ page_ref_count = EmptyMap
    /\ mutex = FALSE
    /\ locked = {}
    /\ mem = [a \in Addrs |-> Junk]
    /\ heap = {}
    /\ handed = {}
    /\ released = {}
    /\ events = <<>>
    /\ last = NoCall
    /\ misuse = 0
    /\ faults = 0
    /\ nops = 0

AllocateAtLeast ==
    \E sz \in {sizeof_T}, n \in 0 .. MaxCount :
      \E count \in n .. MaxCount :
        \E up \in UpstreamResults(count, sz) \ {NullPtr} :
          LET r == allocate_at_least(alloc, Machine(up, count * sz), up, count, sz, AllOk)
          IN  /\ nops < MaxOps
              /\ Commit(r)
              /\ handed' = IF Failed(r) THEN handed
                           ELSE handed \cup {[ptr |-> up, n |-> count, sz |-> sz]}
              /\ released' = IF Failed(r) THEN released ELSE released \ Range(up, count * sz)
              /\ last' = Call("allocate_at_least", up, count, sz, r.err,
                               IF Failed(r) THEN NullPtr ELSE up)
              /\ nops' = nops + 1
              /\ UNCHANGED <<alloc, sizeof_T, faults, misuse, thr, order, self, insts, fcall>>

NextAtLeast == AllocateAtLeast \/ Deallocate

SpecAtLeast == InitAtLeast /\ [][NextAtLeast]_vars

(***************************************************************************)
(* get_state_object called by several threads, each constructing           *)
(* allocators (the default member initializer of _state).  The function    *)
(* takes no lock: the test of _self, the reset and the copy returned are   *)
(* separate steps.  A reset that overlaps another thread's access to _self *)
(* is a data race on the shared_ptr; besides the plain interleavings the   *)
(* racing thread may crash.                                                *)
(***************************************************************************)
InitGetState ==
    /\ thr \in [Threads -> {Idle(k) : k \in {"serialized", "unserialized"}}]
    /\ insts = <<>>
    /\ self = NullPtr
    /\ objects = <<>>
    /\ fcall = NoFCall
    /\ order = <<>>
    /\ page_ref_count = EmptyMap
    /\ mutex = FALSE
    /\ locked = {}
    /\ mem = [a \in Addrs |-> Junk]
    /\ heap = {}
    /\ alloc = [zero |-> FALSE, ns |-> "serialized"]
    /\ sizeof_T = 1
    /\ handed = {}
    /\ released = {}
    /\ events = <<>>
    /\ last = NoCall
    /\ misuse = 0
    /\ faults = 0
    /\ nops = 0

FrameOfGetState ==
    UNCHANGED <<page_ref_count, mutex, locked, mem, heap, alloc, sizeof_T, handed,
                released, events, last, faults, misuse, nops, order, fcall>>

\* another thread is inside get_state_object
Racing(t) == \E u \in Threads \ {t} : thr[u].pc \in {"check", "reset", "return"}

\* an allocator is constructed: _state{get_state_object()}
GsoCall(t) ==
    /\ thr[t].pc = "idle"
    /\ thr[t].done < MaxThreadOps
    /\ thr' = [thr EXCEPT ![t].pc = "check", ![t].op = "get_state_object"]
    /\ UNCHANGED <<self, objects, insts>>
    /\ FrameOfGetState

\* if (!_self)
GsoCheck(t) ==
    /\ thr[t].pc = "check"
    /\ thr' = [thr EXCEPT ![t].pc = IF self = NullPtr THEN "reset" ELSE "return"]
    /\ UNCHANGED <<self, objects, insts>>
    /\ FrameOfGetState

\* _self.reset(new no_swap_allocator_state{})
GsoReset(t) ==
    /\ thr[t].pc = "reset"
    /\ \/ /\ objects' = Append(objects, EmptyMap)
          /\ self' = Len(objects) + 1
          /\ thr' = [thr EXCEPT ![t].pc = "return"]
       \/ /\ Racing(t)
          /\ thr' = [thr EXCEPT ![t].pc = "crashed"]
          /\ UNCHANGED <<self, objects>>
    /\ UNCHANGED insts
    /\ FrameOfGetState

\* return _self: the new allocator's _state
GsoReturn(t) ==
    /\ thr[t].pc = "return"
    /\ insts' = Append(insts, [kind |-> [zero |-> FALSE, ns |-> thr[t].kind], sz |-> 1,
                               state |-> self])
    /\ thr' = [thr EXCEPT ![t] = [@ EXCEPT !.pc = "idle", !.op = "none", !.done = @ + 1]]
    /\ UNCHANGED <<self, objects>>
    /\ FrameOfGetState

NextGetState ==
    \E t \in Threads : GsoCall(t) \/ GsoCheck(t) \/ GsoReset(t) \/ GsoReturn(t)

SpecGetState == InitGetState /\ [][NextGetState]_vars

(***************************************************************************)
(* Allocator instances and their constructors.  insts holds the instances  *)
(* constructed so far; an instance is its allocator type (kind, sz) and    *)
(* its _state, the shared_ptr to the tracker object (NullPtr when empty).  *)
(* Calls go through any instance; a range is given back through any        *)
(* instance of the type that allocated it.  Single-threaded, nothing fails *)
(* in the OS or upstream.                                                  *)
(***************************************************************************)
\* _state{get_state_object()}: the default member initializer
default_construct(objs, me) ==
    LET g == get_state_object(me, objs)
    IN  [to |-> g.self, self |-> g.self, objects |-> g.objects]
\* the defaulted copy constructor copies the shared_ptr
copy_construct(other) == [from |-> other, to |-> other]
\* the defaulted move constructor moves the shared_ptr: the source is left empty
move_construct(other) == [from |-> NullPtr, to |-> other]
\* the converting constructors initialise _upstream_allocator only
convert_construct(other, objs, me) ==
    LET g == get_state_object(me, objs)
    IN  [from |-> other, to |-> g.self, self |-> g.self, objects |-> g.objects]

\* _state->add_allocation(...) through an empty _state is undefined: the
\* process dies there, or the call runs on without a tracker.
NullDerefOutcomes == {"segfault", "skipped"}
Segfault == [kind |-> "segfault", code |-> 0]
null_state_allocate(k, m, up, n, sz, out) ==
    LET a == upstream_allocate(m, up, n, sz)
    IN  IF out = "segfault" THEN [a EXCEPT !.err = Segfault] ELSE a
null_state_deallocate(k, m, ptr, n, sz, out) ==
    LET f == IF k.zero THEN std_fill(m, ptr, ptr + n * sz, 0) ELSE m
    IN  IF out = "segfault" THEN [f EXCEPT !.err = Segfault]
                            ELSE upstream_deallocate(f, ptr, n, sz)

\* The upstream allocator A defaults to std::allocator<T>, whose instances
\* always compare equal.
upstream_eq(a, b) == "true"
\* a == b for two adapter instances: the adapter classes declare no operator==
\* and none is found for them, so the expression has no value.
adapter_eq(a, b) == "ill-formed"

InitInstances ==
    /\ insts = <<>>
    /\ fcall = NoFCall
    /\ self = NullPtr
    /\ objects = <<>>
    /\ thr = [t \in Threads |-> Idle("unserialized")]
    /\ order = <<>>
    /\ page_ref_count = EmptyMap
    /\ mutex = FALSE
    /\ locked = {}
    /\ mem = [a \in Addrs |-> Junk]
    /\ heap = {}
    /\ alloc = [zero |-> FALSE, ns |-> "serialized"]
    /\ sizeof_T = 1
    /\ handed = {}
    /\ released = {}
    /\ events = <<>>
    /\ last = NoCall
    /\ misuse = 0
    /\ faults = 0
    /\ nops = 0

Running == last.err.kind # "segfault"
CanConstruct == Running /\ Len(insts) < MaxInsts
FrameOfConstruct ==
    UNCHANGED <<fcall, page_ref_count, mutex, locked, mem, heap, alloc, sizeof_T, handed,
                released, events, last, faults, misuse, nops, thr, order>>

DefaultConstruct ==
    \E inst \in Instances :
        LET c == default_construct(objects, self)
        IN  /\ CanConstruct
            /\ insts' = Append(insts, [kind |-> inst[1], sz |-> inst[2], state |-> c.to])
            /\ self' = c.self
            /\ objects' = c.objects
            /\ FrameOfConstruct

CopyConstruct ==
    \E i \in DOMAIN insts :
        LET c == copy_construct(insts[i].state)
        IN  /\ CanConstruct
            /\ insts' = Append([insts EXCEPT ![i].state = c.from],
                               [insts[i] EXCEPT !.state = c.to])
            /\ UNCHANGED <<self, objects>>
            /\ FrameOfConstruct

MoveConstruct ==
    \E i \in DOMAIN insts :
        LET c == move_construct(insts[i].state)
        IN  /\ CanConstruct
            /\ insts' = Append([insts EXCEPT ![i].state = c.from],
                               [insts[i] EXCEPT !.state = c.to])
            /\ UNCHANGED <<self, objects>>
            /\ FrameOfConstruct

\* copy or move construction from an instance of another element type
ConvertConstruct ==
    \E i \in DOMAIN insts, sz \in ElemSizes :
        LET c == convert_construct(insts[i].state, objects, self)
        IN  /\ CanConstruct
            /\ sz # insts[i].sz
            /\ insts' = Append([insts EXCEPT ![i].state = c.from],
                               [kind |-> insts[i].kind, sz |-> sz, state |-> c.to])
            /\ self' = c.self
            /\ objects' = c.objects
            /\ FrameOfConstruct

CommitInstance(r, id) ==
    /\ page_ref_count' = IF id = NullPtr THEN page_ref_count ELSE r.page_ref_count
    /\ objects' = IF id = NullPtr THEN objects
                  ELSE [objects EXCEPT ![id] = r.page_ref_count]
    /\ mutex' = r.mutex
    /\ locked' = r.locked
    /\ mem' = r.mem
    /\ heap' = r.heap
    /\ events' = r.ev

InstAllocate ==
    \E i \in DOMAIN insts, n \in 1 .. MaxCount, out \in NullDerefOutcomes :
      \E up \in UpstreamResults(n, insts[i].sz) \ {NullPtr} :
        LET me == insts[i]
            len == n * me.sz
            r == IF me.state = NullPtr
                 THEN null_state_allocate(me.kind, Machine(up, len), up, n, me.sz, out)
                 ELSE allocate(me.kind,
                               [Machine(up, len) EXCEPT !.page_ref_count = objects[me.state]],
                               up, n, me.sz, AllOk)
        IN  /\ Running
            /\ nops < MaxInstOps
            /\ me.state # NullPtr => out = "skipped"
            /\ CommitInstance(r, me.state)
            /\ handed' = IF Failed(r) THEN handed
                         ELSE handed \cup {[ptr |-> up, n |-> n, sz |-> me.sz, by |-> me.kind,
                                            state |-> me.state]}
            /\ released' = IF Failed(r) THEN released ELSE released \ Range(up, len)
            /\ last' = Call("allocate", up, n, me.sz, r.err, IF Failed(r) THEN NullPtr ELSE up)
            /\ alloc' = me.kind
            /\ sizeof_T' = me.sz
            /\ nops' = nops + 1
            /\ UNCHANGED <<fcall, insts, self, faults, misuse, thr, order>>

InstDeallocate ==
    \E h \in handed, i \in DOMAIN insts, out \in NullDerefOutcomes :
        LET me == insts[i]
            len == h.n * h.sz
            r == IF me.state = NullPtr
                 THEN null_state_deallocate(me.kind, Machine(h.ptr, len), h.ptr, h.n, h.sz, out)
                 ELSE deallocate(me.kind,
                                 [Machine(h.ptr, len) EXCEPT !.page_ref_count = objects[me.state]],
                                 h.ptr, h.n, h.sz, AllOk)
        IN  /\ Running
            /\ nops < MaxInstOps
            /\ me.kind = h.by
            /\ me.sz = h.sz
            /\ me.state # NullPtr => out = "skipped"
            /\ CommitInstance(r, me.state)
            /\ handed' = handed \ {h}
            /\ released' = IF me.kind.zero THEN released \cup Range(h.ptr, len) ELSE released
            /\ last' = Call("deallocate", h.ptr, h.n, h.sz, r.err, NullPtr)
            /\ alloc' = me.kind
            /\ sizeof_T' = me.sz
            /\ nops' = nops + 1
            /\ UNCHANGED <<fcall, insts, self, faults, misuse, thr, order>>

NextInstances ==
    \/ DefaultConstruct
    \/ CopyConstruct
    \/ MoveConstruct
    \/ ConvertConstruct
    \/ InstAllocate
    \/ InstDeallocate

SpecInstances == InitInstances /\ [][NextInstances]_vars

(***************************************************************************)
(* Vocabulary of the properties.                                           *)
(***************************************************************************)
Succeeded == last.err.kind = "none"
LastLen == last.n * last.sz
LastAlloc == [ptr |-> last.ptr, n |-> last.n, sz |-> last.sz]
NoFailureNoMisuse == faults = 0 /\ misuse = 0
\* the pages holding at least one byte of [ptr, ptr+len)
Touched(ptr, len) ==
    {p \in PageBases : \E a \in Range(ptr, len) : p <= a /\ a < p + PageSize}
TouchedBy(h) == Touched(h.ptr, h.n * h.sz)
\* the pages from the one holding ptr up to the end of [ptr, ptr+len)
Covered(ptr, len) == {p \in PageBases : p < ptr + len /\ ptr < p + PageSize}
Calls(op) == {i \in DOMAIN events : events[i].op = op}
CallsFor(op, page) == {i \in Calls(op) : events[i].addr = page}
SameEntry(f, g, page) ==
    /\ page \in DOMAIN f <=> page \in DOMAIN g
    /\ page \in DOMAIN f => f[page] = g[page]

(***************************************************************************)
(* C1.  A deallocate through a secure allocator zeroes the range first,    *)
(* then unregisters it (with the OS unpin calls), then calls the upstream  *)
(* deallocate: at every munlock call and at the upstream deallocate call   *)
(* every byte of the range already reads zero.                             *)
(***************************************************************************)
C1_ZeroThenUnpinThenRelease ==
    (Secure(alloc) /\ last.op = "deallocate") =>
        /\ Len(events) >= 1
        /\ events[1].op = "fill"
        /\ events[1].addr = last.ptr
        /\ events[1].len = LastLen
        /\ Calls("fill") = {1}
        /\ \A i \in Calls("munlock") \cup Calls("deallocate") : events[i].zero
        /\ \A i \in Calls("munlock") : \A j \in Calls("deallocate") : i < j
        /\ Succeeded => Calls("deallocate") = {Len(events)}

C1_Witness ==
    /\ Secure(alloc)
    /\ last.op = "deallocate"
    /\ Succeeded
    /\ LastLen > 0
    /\ ~events[1].zero
    /\ Calls("munlock") # {}
    /\ Calls("deallocate") # {}

(***************************************************************************)
(* C2.  Every page touched by a range that a secure allocator has handed   *)
(* out and not yet taken back is locked by the OS, whatever earlier pin    *)
(* and unpin calls answered.  (Stated for callers that only release what   *)
(* they hold.)                                                             *)
(***************************************************************************)
C2_SecureDataLocked ==
    (Secure(alloc) /\ misuse = 0) => \A h \in handed : TouchedBy(h) \subseteq locked

(***************************************************************************)
(* C3.  add_allocation calls mlock for a covered page exactly when the     *)
(* page has no entry, and then creates the entry with count 1; otherwise   *)
(* it only increments.  remove_allocation calls munlock for a covered page *)
(* exactly when the decrement brings the count to 0, and then erases the   *)
(* entry; otherwise it only decrements.  No other page changes and no      *)
(* other OS call is made.                                                  *)
(***************************************************************************)
C3_PinOnFirstUnpinOnLast ==
    (NoSwap(alloc) /\ last.op \in {"allocate", "deallocate"}) =>
        LET b == last.before
            c == page_ref_count
            cov == Covered(last.ptr, LastLen)
        IN  /\ \A i \in Calls("mlock") :
                 /\ last.op = "allocate"
                 /\ events[i].addr \notin DOMAIN b
                 /\ CallsFor("mlock", events[i].addr) = {i}
            /\ \A i \in Calls("munlock") :
                 /\ last.op = "deallocate"
                 /\ events[i].addr \in DOMAIN b
                 /\ b[events[i].addr] = U32(1)
                 /\ CallsFor("munlock", events[i].addr) = {i}
            /\ (Succeeded /\ last.op = "allocate") =>
                 \A p \in PageBases :
                   IF p \in cov
                   THEN /\ p \in DOMAIN c
                        /\ IF p \in DOMAIN b
                           THEN c[p] = Inc32(b[p]) /\ CallsFor("mlock", p) = {}
                           ELSE c[p] = U32(1) /\ CallsFor("mlock", p) # {}
                   ELSE SameEntry(b, c, p) /\ CallsFor("mlock", p) = {}
            /\ (Succeeded /\ last.op = "deallocate") =>
                 \A p \in PageBases :
                   IF p \in cov
                   THEN /\ p \in DOMAIN b
                        /\ IF b[p] = U32(1)
                           THEN p \notin DOMAIN c /\ CallsFor("munlock", p) # {}
                           ELSE /\ p \in DOMAIN c
                                /\ c[p] = Dec32(b[p])
                                /\ CallsFor("munlock", p) = {}
                   ELSE SameEntry(b, c, p) /\ CallsFor("munlock", p) = {}

C3_Witness ==
    /\ NoSwap(alloc)
    /\ last.op = "deallocate"
    /\ Succeeded
    /\ Calls("munlock") # {}
    /\ \E p \in Covered(last.ptr, LastLen) :
         /\ p \in DOMAIN page_ref_count
         /\ last.before[p] = U32(2)
         /\ page_ref_count[p] = U32(1)

(***************************************************************************)
(* C4.  When nothing fails and the caller releases only what it holds,     *)
(* allocations with bytes in the same page cost the page one mlock call,   *)
(* at the allocate that finds no other live allocation in the page, and    *)
(* one munlock call, at the deallocate that leaves none; the other         *)
(* allocates and deallocates make no OS call for the page.  The pages      *)
(* locked are then exactly the pages of the live allocations.              *)
(***************************************************************************)
C4_OnePinOneUnpinPerPage ==
    (/\ NoSwap(alloc)
     /\ NoFailureNoMisuse
     /\ last.op \in {"allocate", "deallocate"}
     /\ LastLen > 0
     /\ \A h \in handed : h.n > 0) =>
        LET others == handed \ {LastAlloc}
            shared(p) == \E h \in others : p \in TouchedBy(h)
            mine(p) == p \in TouchedBy(LastAlloc) /\ ~shared(p)
        IN  /\ \A p \in PageBases :
                 /\ Cardinality(CallsFor("mlock", p)) =
                        IF last.op = "allocate" /\ mine(p) THEN 1 ELSE 0
                 /\ Cardinality(CallsFor("munlock", p)) =
                        IF last.op = "deallocate" /\ mine(p) THEN 1 ELSE 0
            /\ locked = UNION {TouchedBy(h) : h \in handed}

C4_Witness ==
    /\ NoSwap(alloc)
    /\ NoFailureNoMisuse
    /\ last.op = "deallocate"
    /\ LastLen > 0
    /\ \A h \in handed : h.n > 0
    /\ \E h \in handed : TouchedBy(h) = TouchedBy(LastAlloc)
    /\ Calls("munlock") = {}
    /\ TouchedBy(LastAlloc) \subseteq locked

(***************************************************************************)
(* C5.  From the empty tracker, for every ptr and len (len = 0 included),  *)
(* add_allocation(ptr, len) pins exactly the pages whose bytes intersect   *)
(* [ptr, ptr+len), each once.                                              *)
(***************************************************************************)
C5_PinnedPagesAreTouchedPages ==
    (/\ NoSwap(alloc)
     /\ last.op = "allocate"
     /\ Succeeded
     /\ last.before = EmptyMap) =>
        \A p \in PageBases :
            Cardinality(CallsFor("mlock", p)) =
                IF p \in Touched(last.ptr, LastLen) THEN 1 ELSE 0

(***************************************************************************)
(* C6.  Round trip: from any tracker state, a successful add_allocation    *)
(* followed at once by a successful remove_allocation of the same range    *)
(* leaves the page -> refcount map as it was before the add.               *)
(***************************************************************************)
C6_RoundTripRestores ==
    [][(/\ NoSwap(alloc)
        /\ last.op = "allocate"
        /\ Succeeded
        /\ last'.op = "deallocate"
        /\ last'.err.kind = "none"
        /\ last'.ptr = last.ptr
        /\ last'.n = last.n) => page_ref_count' = last.before]_vars

(***************************************************************************)
(* C7.  deallocate of a no-swap allocator unregisters the range (with the  *)
(* OS unpin calls) and only afterwards calls the upstream deallocate,      *)
(* exactly once, with the same pointer and count; when unregistering fails *)
(* the upstream deallocate is not called.                                  *)
(***************************************************************************)
C7_UnregisterThenUpstream ==
    (NoSwap(alloc) /\ last.op = "deallocate") =>
        IF Succeeded
        THEN /\ Calls("deallocate") = {Len(events)}
             /\ events[Len(events)].addr = last.ptr
             /\ events[Len(events)].len = last.n
             /\ \A i \in Calls("munlock") : i < Len(events)
             /\ \A p \in Covered(last.ptr, LastLen) :
                  \/ p \notin DOMAIN page_ref_count
                  \/ page_ref_count[p] = Dec32(last.before[p])
        ELSE Calls("deallocate") = {}

C7_Witness ==
    /\ NoSwap(alloc)
    /\ ~alloc.zero
    /\ last.op = "deallocate"
    /\ Succeeded
    /\ Calls("munlock") # {}
    /\ Calls("deallocate") # {}

(***************************************************************************)
(* C8, as it holds.  Zero-on-release deallocate first overwrites every     *)
(* byte of the range with zero and then forwards to the wrapped            *)
(* deallocate; every byte zeroed by a release and neither handed out nor   *)
(* written since reads zero.  (Nothing is promised about the bytes before  *)
(* the release.)                                                           *)
(***************************************************************************)
C8_ZeroedOnRelease ==
    alloc.zero =>
        /\ \A a \in released : mem[a] = 0
        /\ last.op = "deallocate" =>
             /\ Len(events) >= 1
             /\ events[1].op = "fill"
             /\ events[1].addr = last.ptr
             /\ events[1].len = LastLen
             /\ Range(last.ptr, LastLen) \subseteq released
             /\ Succeeded =>
                  /\ Calls("deallocate") = {Len(events)}
                  /\ Len(events) > 1
                  /\ events[Len(events)].addr = last.ptr
                  /\ events[Len(events)].len = last.n
                  /\ events[Len(events)].zero

C8_Witness ==
    /\ alloc.zero
    /\ last.op = "deallocate"
    /\ Succeeded
    /\ LastLen > 1
    /\ ~events[1].zero
    /\ handed = {}
    /\ released = Range(last.ptr, LastLen)

(***************************************************************************)
(* C8, as written: in addition, a range that is still held (not yet        *)
(* released) is not all zero.  (Stated for callers that only release what  *)
(* they hold, and for ranges that are not empty.)                          *)
(***************************************************************************)
C8_NotZeroBeforeRelease ==
    (alloc.zero /\ misuse = 0) =>
        /\ C8_ZeroedOnRelease
        /\ \A h \in handed : h.n > 0 => ~RangeIs(mem, h.ptr, h.n * h.sz, 0)

(***************************************************************************)
(* C9.  When an mlock call fails during allocate, allocate fails with a    *)
(* system error carrying errno and returns no pointer; the upstream        *)
(* allocate has been made and is not undone: no upstream deallocate is     *)
(* called and the block stays allocated.                                   *)
(***************************************************************************)
C9_PinFailureSurfaces ==
    (NoSwap(alloc) /\ last.op = "allocate") =>
        \A i \in Calls("mlock") :
            events[i].r # 0 =>
                /\ last.err = [kind |-> "system_error", code |-> events[i].errno]
                /\ last.ret = NullPtr
                /\ i = Len(events)
                /\ Calls("allocate") = {1}
                /\ events[1].addr = last.ptr
                /\ events[1].len = last.n
                /\ Calls("deallocate") = {}
                /\ [ptr |-> last.ptr, len |-> LastLen] \in heap
                /\ LastAlloc \notin handed

C9_Witness ==
    /\ NoSwap(alloc)
    /\ last.op = "allocate"
    /\ \E i \in Calls("mlock") : events[i].r # 0 /\ events[i].errno = EINVAL
    /\ last.err.kind = "system_error"

(***************************************************************************)
(* C10.  When a munlock call fails during deallocate, deallocate fails     *)
(* with a system error carrying errno and the upstream deallocate is not   *)
(* called: the block stays allocated upstream.                             *)
(***************************************************************************)
C10_UnpinFailureSurfaces ==
    (NoSwap(alloc) /\ last.op = "deallocate") =>
        \A i \in Calls("munlock") :
            events[i].r # 0 =>
                /\ last.err = [kind |-> "system_error", code |-> events[i].errno]
                /\ i = Len(events)
                /\ Calls("deallocate") = {}
                /\ misuse = 0 => [ptr |-> last.ptr, len |-> LastLen] \in heap

C10_Witness ==
    /\ NoSwap(alloc)
    /\ last.op = "deallocate"
    /\ misuse = 0
    /\ \E i \in Calls("munlock") : events[i].r # 0 /\ events[i].errno = EINVAL
    /\ last.err.kind = "system_error"
    /\ [ptr |-> last.ptr, len |-> LastLen] \in heap

(***************************************************************************)
(* Vocabulary of the error properties: the covered pages in walk order.    *)
(***************************************************************************)
LastCovered == Covered(last.ptr, LastLen)
Untracked == {p \in LastCovered : p \notin DOMAIN last.before}
FailedCalls(op) == {i \in Calls(op) : events[i].r # 0}

(***************************************************************************)
(* C11, as it holds.  deallocate of a no-swap allocator fails with a       *)
(* runtime error (std::runtime_error, not a std::logic_error) when its     *)
(* page walk reaches a covered page without an entry: the pages before it  *)
(* have been handled, that page and the pages after it are left as they    *)
(* were, the error reaches the caller and the upstream deallocate is not   *)
(* called.  The walk reaches the page unless a munlock call for an earlier *)
(* page failed.                                                            *)
(***************************************************************************)
C11_UntrackedIsRuntimeError ==
    (NoSwap(alloc) /\ last.op = "deallocate") =>
        /\ last.err.kind = "runtime_error" =>
             /\ Untracked # {}
             /\ Calls("deallocate") = {}
             /\ FailedCalls("munlock") = {}
             /\ \A p \in PageBases :
                  (\E q \in Untracked : q <= p) =>
                      /\ SameEntry(last.before, page_ref_count, p)
                      /\ CallsFor("munlock", p) = {}
             /\ \A p \in LastCovered :
                  (\A q \in Untracked : p < q) =>
                      \/ p \notin DOMAIN page_ref_count
                      \/ page_ref_count[p] = Dec32(last.before[p])
        /\ Untracked # {} =>
             \/ last.err.kind = "runtime_error"
             \/ /\ last.err.kind = "system_error"
                /\ \E i \in FailedCalls("munlock") : \A q \in Untracked : events[i].addr < q
        /\ Untracked = {} => last.err.kind # "runtime_error"

C11_Witness ==
    /\ NoSwap(alloc)
    /\ last.op = "deallocate"
    /\ last.err.kind = "runtime_error"
    /\ Calls("munlock") # {}
    /\ \E p \in LastCovered : p \notin Untracked /\ p \notin DOMAIN page_ref_count
    /\ heap # {}

(***************************************************************************)
(* C11, as written: the error raised for the untracked page is a logic     *)
(* error.                                                                  *)
(***************************************************************************)
C11_UntrackedIsLogicError ==
    (NoSwap(alloc) /\ last.op = "deallocate" /\ FailedCalls("munlock") = {}) =>
        (Untracked # {} => IsA(last.err.kind, "logic_error"))

(***************************************************************************)
(* C12.  When the upstream allocate throws, allocate of a no-swap          *)
(* allocator fails with that error and registers nothing: the map is       *)
(* unchanged and no mlock call is made.                                    *)
(***************************************************************************)
C12_UpstreamFailureRegistersNothing ==
    (NoSwap(alloc) /\ last.op = "allocate") =>
        /\ last.ptr = NullPtr <=> last.err.kind = "bad_alloc"
        /\ last.ptr = NullPtr =>
             /\ last.ret = NullPtr
             /\ page_ref_count = last.before
             /\ Calls("mlock") = {}
             /\ Calls("munlock") = {}
             /\ Len(events) = 1
             /\ events[1].op = "allocate"

C12_Witness ==
    /\ NoSwap(alloc)
    /\ last.op = "allocate"
    /\ last.err.kind = "bad_alloc"
    /\ last.n > 0
    /\ page_ref_count # EmptyMap
    /\ locked # {}

(***************************************************************************)
(* C13.  Every page present in the page -> refcount map has a refcount of  *)
(* at least 1, also after calls whose mlock or munlock call failed.        *)
(* (Stated for callers that only release what they hold.)                  *)
(***************************************************************************)
C13_PresentMeansCounted ==
    (NoSwap(alloc) /\ misuse = 0) =>
        \A p \in DOMAIN page_ref_count : page_ref_count[p] # U32(0)

(***************************************************************************)
(* C14.  Every page present in the page -> refcount map is locked by the   *)
(* OS, also after calls whose mlock call failed.  (Stated for callers that *)
(* only release what they hold.)                                           *)
(***************************************************************************)
C14_PresentMeansLocked ==
    (NoSwap(alloc) /\ misuse = 0) => DOMAIN page_ref_count \subseteq locked

(***************************************************************************)
(* C15.  A page absent from the page -> refcount map is not locked: an     *)
(* entry is erased only after its munlock call succeeded, and mlock is     *)
(* called only for a page that has an entry.                               *)
(***************************************************************************)
C15_AbsentMeansUnlocked ==
    NoSwap(alloc) =>
        /\ locked \subseteq DOMAIN page_ref_count
        /\ last.op \in {"allocate", "deallocate"} =>
             /\ \A p \in (DOMAIN last.before) \ (DOMAIN page_ref_count) :
                  \E i \in CallsFor("munlock", p) : events[i].r = 0
             /\ \A i \in Calls("mlock") : events[i].addr \in DOMAIN page_ref_count

C15_Witness ==
    /\ NoSwap(alloc)
    /\ last.op = "deallocate"
    /\ \E p \in DOMAIN last.before : p \notin DOMAIN page_ref_count /\ p \notin locked
    /\ \E i \in FailedCalls("munlock") :
         events[i].addr \in DOMAIN page_ref_count /\ events[i].addr \in locked

(***************************************************************************)
(* C16.  When add_allocation fails because mlock fails at page k, every    *)
(* covered page before k keeps the increment this call made (and the lock  *)
(* this call took), and the pages after k are untouched.                   *)
(***************************************************************************)
C16_PartialRegistrationKept ==
    (NoSwap(alloc) /\ last.op = "allocate") =>
        \A i \in FailedCalls("mlock") :
            LET k == events[i].addr
                b == last.before
                c == page_ref_count
            IN  /\ k \in LastCovered
                /\ Calls("munlock") = {}
                /\ \A p \in PageBases :
                     /\ (p \in LastCovered /\ p < k) =>
                          /\ p \in DOMAIN c
                          /\ IF p \in DOMAIN b
                             THEN c[p] = Inc32(b[p]) /\ CallsFor("mlock", p) = {}
                             ELSE /\ c[p] = U32(1)
                                  /\ p \in locked
                                  /\ \E j \in CallsFor("mlock", p) : events[j].r = 0 /\ j < i
                     /\ (p > k \/ p \notin LastCovered) =>
                          /\ SameEntry(b, c, p)
                          /\ CallsFor("mlock", p) = {}

C16_Witness ==
    /\ NoSwap(alloc)
    /\ last.op = "allocate"
    /\ \E i \in FailedCalls("mlock") :
         \E p \in LastCovered :
           /\ p < events[i].addr
           /\ p \notin DOMAIN last.before
           /\ p \in locked
           /\ page_ref_count[p] = U32(1)

(***************************************************************************)
(* C17.  In the serialized variant every mlock and munlock call is made    *)
(* while the tracker mutex is held; a single-page allocate or deallocate   *)
(* sees it held once.  The upstream calls are made without the mutex.      *)
(***************************************************************************)
C17_LockHeldDuringOSCalls ==
    (alloc.ns = "serialized" /\ last.op \in {"allocate", "deallocate"}) =>
        /\ \A i \in Calls("mlock") \cup Calls("munlock") : events[i].held
        /\ \A i \in Calls("allocate") \cup Calls("deallocate") : ~events[i].held
        /\ (Succeeded /\ Cardinality(LastCovered) = 1
              /\ (last.op = "allocate" => LastCovered \cap DOMAIN last.before = {})
              /\ (last.op = "deallocate" =>
                    \A p \in LastCovered : last.before[p] = U32(1))) =>
             Cardinality({i \in DOMAIN events : events[i].held}) = 1

C17_Witness ==
    /\ alloc.ns = "serialized"
    /\ last.op = "deallocate"
    /\ Succeeded
    /\ Cardinality(LastCovered) = 1
    /\ \E i \in Calls("munlock") : events[i].held

(***************************************************************************)
(* Vocabulary of the thread properties.                                    *)
(***************************************************************************)
AllSerialized == \A t \in Threads : thr[t].kind = "serialized"
\* the threads between the constructor and the destructor of a lock_guard
Holders ==
    {t \in Threads : thr[t].kind = "serialized"
                      /\ thr[t].pc \in {"find", "act", "unlock", "crashed"}}

(***************************************************************************)
(* C18.  With serialized allocators only, under every interleaving: at     *)
(* most one thread is inside a tracker operation, and whenever none is,    *)
(* the page -> refcount map, the locked pages and the OS calls made are    *)
(* those of the same operations run one after another in the order they    *)
(* took the mutex.  No thread crashes and no operation fails.              *)
(***************************************************************************)
C18_SerializedIsSequential ==
    AllSerialized =>
        /\ Cardinality(Holders) <= 1
        /\ mutex <=> Holders # {}
        /\ \A t \in Threads : thr[t].pc # "crashed" /\ thr[t].err = NoErr
        /\ Holders = {} =>
             LET s == SeqApply(EmptyMachine, order, 1)
             IN  /\ page_ref_count = s.page_ref_count
                 /\ locked = s.locked
                 /\ events = s.ev

C18_Witness ==
    /\ AllSerialized
    /\ \A t \in Threads : thr[t].pc = "idle" /\ thr[t].done = 1
    /\ Cardinality(handed) = 2
    /\ \E p \in PageBases :
         /\ \A h \in handed : TouchedBy(h) = {p}
         /\ page_ref_count = [q \in {p} |-> U32(2)]
         /\ Cardinality(Calls("mlock")) = 1

(***************************************************************************)
(* C19.  An unserialized allocate / deallocate never takes or waits for    *)
(* the tracker mutex: its thread is never at the lock or the unlock, the   *)
(* mutex is held exactly while a serialized thread is inside a tracker     *)
(* operation, and an unserialized thread inside its call can always take   *)
(* its next step, also while the mutex is held.                            *)
(***************************************************************************)
C19_UnserializedNeverLocks ==
    /\ \A t \in Threads :
         thr[t].kind = "unserialized" =>
             /\ thr[t].pc \notin {"lock", "unlock"}
             /\ thr[t].pc \in {"find", "act", "return"} => ENABLED ThreadStep(t)
    /\ mutex <=> Holders # {}

C19_Witness ==
    /\ mutex
    /\ \E t \in Threads, u \in Threads :
         /\ thr[u].kind = "serialized"
         /\ thr[u].pc = "act"
         /\ thr[t].kind = "unserialized"
         /\ thr[t].pc = "find"
         /\ thr[t].page > to_page(thr[t].ptr)
         /\ order = <<[op |-> thr[u].op, ptr |-> thr[u].ptr, len |-> thr[u].len],
                      [op |-> thr[t].op, ptr |-> thr[t].ptr, len |-> thr[t].len]>>

(***************************************************************************)
(* C20.  Single-threaded code, any mix of no-swap and secure instances:    *)
(* there is one tracker object, every instance refers to it, and its table *)
(* counts, per page, the live allocations of all instances together.  So   *)
(* an allocate pins exactly the pages of its range in which no instance    *)
(* holds another live allocation, and a deallocate unpins exactly the      *)
(* pages of its range in which no instance holds a live allocation any     *)
(* more.                                                                   *)
(***************************************************************************)
C20_OneTableForAllInstances ==
    LET others == {h \in handed : h.ptr # last.ptr}
        shared(p) == \E h \in others : p \in TouchedBy(h)
        mine(p) == p \in Touched(last.ptr, LastLen) /\ ~shared(p)
        live(p) == {h \in handed : p \in TouchedBy(h)}
    IN  /\ Len(objects) <= 1
        /\ self = Len(objects)
        /\ \A h \in handed : h.state = self
        /\ Succeeded
        /\ DOMAIN page_ref_count = {p \in PageBases : live(p) # {}}
        /\ \A p \in DOMAIN page_ref_count :
             page_ref_count[p] = U32(Cardinality(live(p)))
        /\ locked = DOMAIN page_ref_count
        /\ \A p \in PageBases :
             /\ Cardinality(CallsFor("mlock", p)) =
                    IF last.op = "allocate" /\ mine(p) THEN 1 ELSE 0
             /\ Cardinality(CallsFor("munlock", p)) =
                    IF last.op = "deallocate" /\ mine(p) THEN 1 ELSE 0

C20_Witness ==
    /\ last.op = "deallocate"
    /\ Calls("munlock") = {}
    /\ \E h \in handed, p \in PageBases :
         /\ h.by.ns # alloc.ns
         /\ h.by.zero # alloc.zero
         /\ p \in TouchedBy(h)
         /\ p \in Touched(last.ptr, LastLen)
         /\ page_ref_count[p] = U32(1)
         /\ p \in locked

(***************************************************************************)
(* C21.  Every allocator instance refers to the tracker object at every    *)
(* point of its lifetime, also after it was the source of a copy or move   *)
(* construction, and an allocate through any instance succeeds and leaves  *)
(* the pages of the range registered in the tracker.                       *)
(***************************************************************************)
C21_EveryInstanceHoldsTracker ==
    /\ \A i \in DOMAIN insts : insts[i].state # NullPtr /\ insts[i].state = self
    /\ last.op = "allocate" =>
         /\ Succeeded
         /\ self # NullPtr
         /\ Touched(last.ptr, LastLen) \subseteq DOMAIN objects[self]
         /\ Touched(last.ptr, LastLen) \subseteq locked

(***************************************************************************)
(* C22.  A deallocate through a zero-on-release allocator changes no byte  *)
(* outside [ptr, ptr + count * sizeof(T)), whether it succeeds or not, and *)
(* an allocate through it changes no byte at all.                          *)
(***************************************************************************)
C22_FrameOfZeroOnRelease ==
    [][(nops' # nops /\ alloc.zero) =>
          /\ last'.op = "deallocate" =>
               \A a \in Addrs \ Range(last'.ptr, last'.n * last'.sz) : mem'[a] = mem[a]
          /\ last'.op = "allocate" => mem' = mem]_vars

C22_Witness ==
    /\ alloc.zero
    /\ last.op = "deallocate"
    /\ LastLen > 0
    /\ RangeIs(mem, last.ptr, LastLen, 0)
    /\ \E a \in Addrs : a < last.ptr /\ mem[a] = Junk
    /\ \E a \in Addrs : a >= last.ptr + LastLen /\ mem[a] = Junk

(***************************************************************************)
(* C23.  Two instances of the same adapter type can be compared, and the   *)
(* comparison yields what the comparison of their upstream allocators      *)
(* yields.                                                                 *)
(***************************************************************************)
C23_EqualIffUpstreamEqual ==
    \A i \in DOMAIN insts, j \in DOMAIN insts :
        (insts[i].kind = insts[j].kind /\ insts[i].sz = insts[j].sz) =>
            adapter_eq(insts[i], insts[j]) = upstream_eq(insts[i], insts[j])

(***************************************************************************)
(* C24.  Single-threaded, the serialized and the unserialized variant do   *)
(* the same: from every state in which a call is made, with the same       *)
(* upstream result and the same OS answers, both leave the same            *)
(* page -> refcount map, locked pages, memory, upstream heap and error,    *)
(* and make the same OS and upstream calls in the same order (the log      *)
(* compared without the note of whether the mutex was held).  The same     *)
(* holds with zero_on_release_allocator around both.                       *)
(***************************************************************************)
Observable(r) ==
    [page_ref_count |-> r.page_ref_count, locked |-> r.locked, mem |-> r.mem,
     heap |-> r.heap, err |-> r.err, mutex |-> r.mutex,
     ev |-> [i \in DOMAIN r.ev |-> [op |-> r.ev[i].op, addr |-> r.ev[i].addr,
                                    len |-> r.ev[i].len, r |-> r.ev[i].r,
                                    errno |-> r.ev[i].errno]]]
Ser == [zero |-> alloc.zero, ns |-> "serialized"]
Unser == [zero |-> alloc.zero, ns |-> "unserialized"]

C24_VariantsEquivalent ==
    (NoSwap(alloc) /\ nops < MaxOps) =>
        \A sz \in ElemSizes, n \in 0 .. MaxCount :
            /\ \A up \in UpstreamResults(n, sz) :
                 \A os \in OSOracles(up, n * sz) :
                     LET m == Machine(up, IF up = NullPtr THEN 0 ELSE n * sz)
                     IN  Observable(allocate(Ser, m, up, n, sz, os))
                             = Observable(allocate(Unser, m, up, n, sz, os))
            /\ \A ptr \in {a \in Addrs : a % sz = 0 /\ a + n * sz <= MemEnd} :
                 \A os \in OSOracles(ptr, n * sz) :
                     Observable(deallocate(Ser, Machine(ptr, n * sz), ptr, n, sz, os))
                         = Observable(deallocate(Unser, Machine(ptr, n * sz), ptr, n, sz, os))

C24_Witness ==
    /\ alloc.ns = "serialized"
    /\ last.op = "allocate"
    /\ Succeeded
    /\ Calls("mlock") # {}
    /\ \E os \in OSOracles(last.ptr, LastLen) :
         LET u == deallocate(Unser, Machine(last.ptr, LastLen), last.ptr, last.n, last.sz, os)
             v == deallocate(Ser, Machine(last.ptr, LastLen), last.ptr, last.n, last.sz, os)
         IN  /\ u.err.kind = "system_error"
             /\ \E i \in DOMAIN u.ev : u.ev[i].op = "munlock"
             /\ Observable(u) = Observable(v)

(***************************************************************************)
(* C25.  to_page aligns down: its result is a multiple of the page size P, *)
(* to_page(p) <= p < to_page(p) + P, and it is p when p is a multiple of   *)
(* P.                                                                      *)
(***************************************************************************)
C25_ToPageAlignsDown ==
    fcall.returned =>
        /\ fcall.ret % fcall.page_size = 0
        /\ fcall.ret <= fcall.ptr
        /\ fcall.ptr < fcall.ret + fcall.page_size
        /\ fcall.ptr % fcall.page_size = 0 => fcall.ret = fcall.ptr

C25_Witness ==
    /\ fcall.returned
    /\ fcall.page_size = 8
    /\ fcall.ptr = 16 + 7
    /\ fcall.ret = 16

(***************************************************************************)
(* C26.  Every mlock and munlock call the tracker makes is for exactly one *)
(* page: its address is a multiple of the page size and its length is the  *)
(* page size, whatever pointer and length the allocation has.              *)
(***************************************************************************)
C26_OSCallsCoverOnePage ==
    \A i \in Calls("mlock") \cup Calls("munlock") :
        /\ events[i].addr % PageSize = 0
        /\ events[i].len = PageSize

C26_Witness ==
    /\ last.op = "deallocate"
    /\ last.ptr % PageSize # 0
    /\ LastLen = PageSize
    /\ Cardinality(Calls("munlock")) = 2
    /\ \A i \in Calls("munlock") : events[i].addr # last.ptr /\ events[i].len = PageSize

(***************************************************************************)
(* C27.  When no call has failed and only held ranges have been released,  *)
(* the refcount of every page is the number of live allocations whose      *)
(* range touches the page, and the page is locked exactly when that number *)
(* is at least 1.                                                          *)
(***************************************************************************)
LiveIn(p) == {h \in handed : p \in TouchedBy(h)}

C27_RefcountIsLiveCount ==
    (NoSwap(alloc) /\ NoFailureNoMisuse) =>
        \A p \in PageBases :
            IF LiveIn(p) = {}
            THEN p \notin DOMAIN page_ref_count /\ p \notin locked
            ELSE /\ p \in DOMAIN page_ref_count
                 /\ page_ref_count[p] = U32(Cardinality(LiveIn(p)))
                 /\ p \in locked

(***************************************************************************)
(* C28.  No refcount is ever decremented at 0: no page's 32-bit count      *)
(* wraps around to 2^32 - 1, also when a remove_allocation is repeated     *)
(* after an earlier one failed in the OS unpin call.                       *)
(***************************************************************************)
C28_NoWrapAround ==
    \A p \in DOMAIN page_ref_count :
        page_ref_count[p] # [hi |-> Half - 1, lo |-> Half - 1]

(***************************************************************************)
(* C29.  When a deallocate through a secure allocator fails in the no-swap *)
(* layer (a page without an entry, or a failing munlock), the range was    *)
(* zeroed first: the fill is the first thing the call does, every later    *)
(* call it makes sees the range zeroed, the range reads zero after the     *)
(* error, and the upstream deallocate was not called.                      *)
(***************************************************************************)
C29_ZeroedBeforeError ==
    (Secure(alloc) /\ last.op = "deallocate" /\ ~Succeeded) =>
        /\ last.err.kind \in {"runtime_error", "system_error"}
        /\ events # <<>>
        /\ events[1].op = "fill" /\ events[1].addr = last.ptr /\ events[1].len = LastLen
        /\ \A i \in DOMAIN events : events[i].op # "deallocate" /\ (i > 1 => events[i].zero)
        /\ RangeIs(mem, last.ptr, LastLen, 0)
        /\ misuse = 0 => [ptr |-> last.ptr, len |-> LastLen] \in heap

C29_Witness ==
    /\ Secure(alloc)
    /\ last.op = "deallocate"
    /\ last.err.kind = "system_error"
    /\ misuse = 0
    /\ LastLen > 0
    /\ FailedCalls("munlock") # {}
    /\ RangeIs(mem, last.ptr, LastLen, 0)
    /\ [ptr |-> last.ptr, len |-> LastLen] \in heap

(***************************************************************************)
(* C30.  A failing remove_allocation is not atomic.  When it fails at page *)
(* k of its range (k has no entry, or the munlock of k fails), every       *)
(* covered page before k has been decremented, and unpinned and erased     *)
(* where it reached 0, and stays so; every covered page after k keeps its  *)
(* entry and sees no OS call.                                              *)
(***************************************************************************)
FailPage ==
    IF last.err.kind = "runtime_error"
    THEN CHOOSE p \in Untracked : \A q \in Untracked : p <= q
    ELSE events[CHOOSE i \in FailedCalls("munlock") : TRUE].addr

C30_FailingRemoveNotAtomic ==
    (NoSwap(alloc) /\ last.op = "deallocate" /\ ~Succeeded) =>
        \A p \in LastCovered :
            /\ p < FailPage =>
                 /\ p \in DOMAIN last.before
                 /\ IF Dec32(last.before[p]) = U32(0)
                    THEN /\ p \notin DOMAIN page_ref_count
                         /\ Cardinality(CallsFor("munlock", p)) = 1
                         /\ p \notin locked
                    ELSE /\ p \in DOMAIN page_ref_count
                         /\ page_ref_count[p] = Dec32(last.before[p])
                         /\ CallsFor("munlock", p) = {}
            /\ p > FailPage =>
                 /\ SameEntry(last.before, page_ref_count, p)
                 /\ CallsFor("munlock", p) = {}

C30_Witness ==
    /\ NoSwap(alloc)
    /\ last.op = "deallocate"
    /\ ~Succeeded
    /\ \E p \in LastCovered :
         /\ p < FailPage
         /\ p \in DOMAIN last.before
         /\ p \notin DOMAIN page_ref_count
         /\ p \notin locked

(***************************************************************************)
(* C31.  Frame of the tracker operations: an allocate or deallocate of a   *)
(* no-swap allocator changes the entry of no page outside those holding a  *)
(* byte of [ptr, ptr + len) and makes no OS call for such a page.          *)
(***************************************************************************)
C31_FrameOfTrackerOperations ==
    (NoSwap(alloc) /\ last.op \in {"allocate", "deallocate"} /\ last.ptr # NullPtr) =>
        \A p \in PageBases \ Touched(last.ptr, LastLen) :
            /\ SameEntry(last.before, page_ref_count, p)
            /\ CallsFor("mlock", p) = {}
            /\ CallsFor("munlock", p) = {}

(***************************************************************************)
(* C32.  The tracker mutex is released on every exit path of a serialized  *)
(* call: after a serialized allocate or deallocate has returned or failed  *)
(* (failing mlock, failing munlock, page without an entry, failing         *)
(* upstream allocate) the mutex is not held.                               *)
(***************************************************************************)
C32_MutexReleasedOnEveryExit ==
    alloc.ns = "serialized" => ~mutex

C32_Witness ==
    /\ alloc.ns = "serialized"
    /\ last.op = "deallocate"
    /\ last.err.kind = "system_error"
    /\ \E i \in FailedCalls("munlock") : events[i].held
    /\ ~mutex

(***************************************************************************)
(* C33.  At most one tracker object is ever created and every              *)
(* get_state_object call returns that object, under every interleaving of  *)
(* the calls, first calls made at the same time by several threads         *)
(* included.                                                               *)
(***************************************************************************)
C33_OneTrackerInstance ==
    /\ Len(objects) <= 1
    /\ \A i \in DOMAIN insts : insts[i].state = 1

(***************************************************************************)
(* C34.  allocate_at_least round trip: r = allocate_at_least(n) registers  *)
(* the pages of [r.ptr, r.ptr + r.count * sizeof(T)), the range that       *)
(* deallocate(r.ptr, r.count) unregisters, so the deallocate raises no     *)
(* error and, once everything is given back, the tracker is empty again.   *)
(***************************************************************************)
C34_AtLeastRoundTrip ==
    faults = 0 =>
        /\ (last.op = "allocate_at_least" /\ Succeeded) =>
               Touched(last.ptr, LastLen) \subseteq DOMAIN page_ref_count
        /\ last.op = "deallocate" => Succeeded
        /\ handed = {} => page_ref_count = EmptyMap /\ locked = {}

(***************************************************************************)
(* C35.  The untracked check of a deallocate is made page by page against  *)
(* the map, never against the allocations handed out: the runtime error is *)
(* raised exactly when the walk reaches a covered page without an entry.   *)
(* When every covered page has an entry (and no munlock call fails) the    *)
(* call succeeds whether or not the range is registered, every covered     *)
(* page is decremented, and a page whose count reaches 0 is unpinned and   *)
(* erased even if a live allocation still occupies it.                     *)
(***************************************************************************)
C35_UntrackedCheckIsPerPage ==
    (NoSwap(alloc) /\ last.op = "deallocate" /\ FailedCalls("munlock") = {}) =>
        /\ last.err.kind = "runtime_error" <=> Untracked # {}
        /\ Untracked = {} =>
             /\ Succeeded
             /\ \A p \in LastCovered :
                  LET d == Dec32(last.before[p])
                  IN  IF d = U32(0)
                      THEN p \notin DOMAIN page_ref_count /\ p \notin locked
                      ELSE page_ref_count[p] = d /\ CallsFor("munlock", p) = {}

C35_Witness ==
    /\ NoSwap(alloc)
    /\ last.op = "deallocate"
    /\ Succeeded
    /\ misuse = 1
    /\ faults = 0
    /\ Untracked = {}
    /\ LastLen > 0
    /\ \E h \in handed : \E p \in TouchedBy(h) \cap LastCovered :
         /\ Range(h.ptr, h.n * h.sz) \cap Range(last.ptr, LastLen) = {}
         /\ last.before[p] = U32(1)
         /\ p \notin DOMAIN page_ref_count
         /\ p \notin locked

(***************************************************************************)
(* C36.  Progress of the serialized variant: every call a thread has       *)
(* started eventually returns to its caller; in no reachable state with a  *)
(* call in flight are all the threads in flight stuck (no deadlock); and   *)
(* the page walk of a call acts only on pages covered by the call's range. *)
(***************************************************************************)
NoDeadlock == (\E t \in Threads : thr[t].pc # "idle") => ENABLED (\E t \in Threads : InCall(t))
WalkInRange ==
    \A t \in Threads : thr[t].pc = "act" => thr[t].page \in Covered(thr[t].ptr, thr[t].len)

C36_SerializedProgress ==
    /\ []NoDeadlock
    /\ []WalkInRange
    /\ \A t \in Threads : (thr[t].pc # "idle") ~> (thr[t].pc = "idle")

C36_Witness ==
    \E t, u \in Threads :
        /\ thr[t].pc = "lock"
        /\ thr[t].done > 0
        /\ mutex
        /\ thr[u].pc = "act"
        /\ thr[u].page > to_page(thr[u].ptr)

====
